---------------------------- MODULE Spec2Model ----------------------------
(***************************************************************************)
(* A model of get_weather (src/src/main.py): one invocation, from the      *)
(* credential check to the returned result dict.                           *)
(*                                                                         *)
(* Text is a sequence of one-character strings.  The administrative        *)
(* suffix characters of rstrip (shi / qu / xian, main.py:195) are written  *)
(* "S", "Q" and "X"; "a", "b", "c", "d" stand for any other character.     *)
(***************************************************************************)
EXTENDS Naturals, Sequences, FiniteSets

VARIABLES
    env_api_key,        \* os.environ entry AMAP_API_KEY
    city_name,          \* argument city_name (any Python value)
    extensions,         \* argument extensions (any Python value)
    pc,                 \* the statement group get_weather is at
    city_codes,         \* local city_codes: insertion-ordered dict
    adcode,             \* local adcode ("" stands for None)
    matched_city_name,  \* local matched_city_name
    response,           \* what requests.get produced
    api_result,         \* local result: the parsed JSON body
    result,             \* the dict get_weather returns
    trace               \* the statement groups executed so far, in order

vars == <<env_api_key, city_name, extensions, pc, city_codes, adcode,
          matched_city_name, response, api_result, result, trace>>

---------------------------------------------------------------------------
(* Bounds of the model *)

\* rows of the city file drawn on in SpecTables
MaxRows == 10
\* rows of the city file drawn on in Spec
SmallRows == 4

\* similar_cities[:5]
MaxSuggestions == 5

---------------------------------------------------------------------------
(* Python values *)

PyNone == [kind |-> "none", s |-> <<>>, n |-> 0]
PyStr(chars) == [kind |-> "str", s |-> chars, n |-> 0]
PyInt(i) == [kind |-> "int", s |-> <<>>, n |-> i]
PyList(items) == [kind |-> "list", s |-> items, n |-> 0]

\* bool(v)
Truthy(v) ==
    CASE v.kind = "none" -> FALSE
      [] v.kind = "int" -> v.n # 0
      [] OTHER -> v.s # <<>>

\* isinstance(v, str)
IsStr(v) == v.kind = "str"

Min(a, b) == IF a <= b THEN a ELSE b

\* s[:2]
Prefix2(s) == SubSeq(s, 1, Min(2, Len(s)))

\* sub in s
Contains(sub, s) ==
    \E i \in 1..(Len(s) - Len(sub) + 1) : SubSeq(s, i, i + Len(sub) - 1) = sub

SuffixChars == {"S", "Q", "X"}

RECURSIVE RStripAll(_, _)
RStripAll(s, chars) ==
    IF s # <<>> /\ s[Len(s)] \in chars
    THEN RStripAll(SubSeq(s, 1, Len(s) - 1), chars)
    ELSE s

\* s.rstrip('SQX')
RStrip(s) == RStripAll(s, SuffixChars)

---------------------------------------------------------------------------
(* The city table: an insertion-ordered dict, a sequence of entries with   *)
(* distinct names.                                                         *)

Names(d) == {d[i].name : i \in 1..Len(d)}

IndexOf(d, name) == CHOOSE i \in 1..Len(d) : d[i].name = name

\* d.get(name), "" for None
DictGet(d, name) == IF name \in Names(d) THEN d[IndexOf(d, name)].code ELSE ""

\* d[name] = code: a present key keeps its place
DictSet(d, name, code) ==
    IF name \in Names(d)
    THEN [d EXCEPT ![IndexOf(d, name)].code = code]
    ELSE Append(d, [name |-> name, code |-> code])

\* a slip: keeps the rows without an adcode
RECURSIVE ReadRowsKeepEmpty(_, _)
ReadRowsKeepEmpty(rows, d) ==
    IF rows = <<>> THEN d
    ELSE LET row == Head(rows)
         IN  ReadRowsKeepEmpty(Tail(rows),
                      IF row.name # <<>>
                      THEN DictSet(d, row.name, row.adcode)
                      ELSE d)

\* the loop over the rows: a row with both columns non-empty sets an entry
RECURSIVE ReadRows(_, _)
ReadRows(rows, d) ==
    IF rows = <<>> THEN d
    ELSE LET row == Head(rows)
         IN  ReadRows(Tail(rows),
                      IF row.name # <<>> /\ row.adcode # ""
                      THEN DictSet(d, row.name, row.adcode)
                      ELSE d)

\* _load_city_codes(): {} when the file cannot be opened or read
LoadCityCodesFrom(file) ==
    IF file.state = "ok" THEN ReadRows(file.rows, <<>>) ELSE <<>>


---------------------------------------------------------------------------
(* The resolver: exact match, suffix-stripped match, suggestions *)

\* a slip: the loop has no break, the last matching entry wins
RECURSIVE FuzzyLoopLast(_, _, _)
FuzzyLoopLast(d, cleaned, i) ==
    IF i > Len(d) THEN 0
    ELSE LET later == FuzzyLoopLast(d, cleaned, i + 1)
         IN  IF later # 0 THEN later
             ELSE IF RStrip(d[i].name) = cleaned THEN i ELSE 0

\* the loop of the suffix-stripped match from entry i on: the index of the
\* first entry whose stripped name equals cleaned, 0 when there is none
RECURSIVE FuzzyLoop(_, _, _)
FuzzyLoop(d, cleaned, i) ==
    IF i > Len(d) THEN 0
    ELSE IF RStrip(d[i].name) = cleaned THEN i
    ELSE FuzzyLoop(d, cleaned, i + 1)

FuzzyFind(d, name) == FuzzyLoop(d, RStrip(name), 1)

\* [name for name in city_codes.keys() if part in name], from entry i on
RECURSIVE KeysContaining(_, _, _)
KeysContaining(d, part, i) ==
    IF i > Len(d) THEN <<>>
    ELSE (IF Contains(part, d[i].name) THEN <<d[i].name>> ELSE <<>>)
         \o KeysContaining(d, part, i + 1)

\* seq[:k]
Take(seq, k) == SubSeq(seq, 1, Min(k, Len(seq)))

\* a slip: no truncation of the list
SimilarCitiesAll(d, name) == KeysContaining(d, Prefix2(name), 1)

\* similar_cities[:5]
SimilarCities(d, name) == Take(KeysContaining(d, Prefix2(name), 1), MaxSuggestions)

---------------------------------------------------------------------------
(* JSON values of the provider's body *)

JAbsent == [kind |-> "absent", items |-> <<>>, n |-> 0]
JNull == [kind |-> "null", items |-> <<>>, n |-> 0]
JList(items) == [kind |-> "list", items |-> items, n |-> 0]
JObject(keys) == [kind |-> "object", items |-> keys, n |-> 0]
JString(chars) == [kind |-> "string", items |-> chars, n |-> 0]
JNumber(i) == [kind |-> "number", items |-> <<>>, n |-> i]

\* body.get(key): None for a missing key
Get(field) == IF field.kind = "absent" THEN JNull ELSE field

\* body.get(key, default)
GetDefault(field, default) == IF field.kind = "absent" THEN default ELSE field

\* bool(v) of a parsed JSON value
JTruthy(v) ==
    CASE v.kind \in {"absent", "null"} -> FALSE
      [] v.kind = "number" -> v.n # 0
      [] OTHER -> v.items # <<>>

\* v[0] of a truthy value: the element, or the exception it raises
Index0(v) ==
    CASE v.kind \in {"list", "string"} -> [raises |-> "", value |-> v.items[1]]
      [] v.kind = "object" -> [raises |-> "KeyError", value |-> ""]
      [] OTHER -> [raises |-> "TypeError", value |-> ""]

---------------------------------------------------------------------------
(* Exceptions: the classes the calls of get_weather raise, with the bases  *)
(* the except clauses test them against                                    *)

Bases(cls) ==
    CASE cls = "ReadTimeout" -> {"Timeout"}
      [] cls = "ConnectTimeout" -> {"ConnectionError", "Timeout"}
      [] cls = "Timeout" -> {"RequestException"}
      [] cls = "ConnectionError" -> {"RequestException"}
      [] cls = "HTTPError" -> {"RequestException"}
      [] cls = "TooManyRedirects" -> {"RequestException"}
      [] cls = "InvalidJSONError" -> {"RequestException"}
      [] cls = "RequestsJSONDecodeError" -> {"InvalidJSONError", "ValueError"}
      [] cls = "RequestException" -> {"Exception"}
      [] cls = "ValueError" -> {"Exception"}
      [] cls = "AttributeError" -> {"Exception"}
      [] cls = "KeyError" -> {"Exception"}
      [] cls = "TypeError" -> {"Exception"}
      [] OTHER -> {}

RECURSIVE IsSubclass(_, _)
IsSubclass(cls, base) ==
    cls = base \/ \E b \in Bases(cls) : IsSubclass(b, base)

Fail(code, message) == [success |-> FALSE, error |-> message, error_code |-> code]

\* a slip: the generic network clause comes first
ExceptClausesNetworkFirst(exc) ==
    IF IsSubclass(exc, "RequestException")
    THEN [caught |-> TRUE, result |-> Fail("NETWORK_ERROR", <<"network request failed", exc>>)]
    ELSE IF IsSubclass(exc, "Timeout")
    THEN [caught |-> TRUE, result |-> Fail("TIMEOUT", <<"request timed out">>)]
    ELSE IF IsSubclass(exc, "Exception")
    THEN [caught |-> TRUE, result |-> Fail("UNEXPECTED_ERROR", <<"unknown error", exc>>)]
    ELSE [caught |-> FALSE, result |-> Fail("", <<>>)]

\* a slip: no catch-all clause
ExceptClausesNoCatchAll(exc) ==
    IF IsSubclass(exc, "Timeout")
    THEN [caught |-> TRUE, result |-> Fail("TIMEOUT", <<"request timed out">>)]
    ELSE IF IsSubclass(exc, "RequestException")
    THEN [caught |-> TRUE, result |-> Fail("NETWORK_ERROR", <<"network request failed", exc>>)]
    ELSE [caught |-> FALSE, result |-> Fail("", <<>>)]

\* the except clauses of get_weather, tried in order
ExceptClauses(exc) ==
    IF IsSubclass(exc, "Timeout")
    THEN [caught |-> TRUE, result |-> Fail("TIMEOUT", <<"request timed out">>)]
    ELSE IF IsSubclass(exc, "RequestException")
    THEN [caught |-> TRUE, result |-> Fail("NETWORK_ERROR", <<"network request failed", exc>>)]
    ELSE IF IsSubclass(exc, "Exception")
    THEN [caught |-> TRUE, result |-> Fail("UNEXPECTED_ERROR", <<"unknown error", exc>>)]
    ELSE [caught |-> FALSE, result |-> Fail("", <<>>)]


---------------------------------------------------------------------------
(* The inputs of one invocation *)

\* os.environ.get('AMAP_API_KEY'): unset, set to the empty text, set
ApiKeyEnvs ==
    { [set |-> FALSE, value |-> ""],
      [set |-> TRUE, value |-> ""],
      [set |-> TRUE, value |-> "test_api_key_12345"] }

CityNameStrings ==
    { <<"a", "b">>, <<"a", "b", "S">>, <<"a", "b", "S", "X">>, <<"a", "b", "d">>,
      <<"a">>, <<"b", "Q">>, <<"d", "d">> }

CityNameValues ==
    {PyStr(s) : s \in CityNameStrings}
    \cup {PyStr(<<>>), PyNone, PyInt(0), PyInt(7), PyList(<<>>), PyList(<<"a", "b">>)}

ExtStr(text) == [kind |-> "str", s |-> text, n |-> 0]
ExtNone == [kind |-> "none", s |-> "", n |-> 0]
ExtInt(i) == [kind |-> "int", s |-> "", n |-> i]

ExtensionsValues ==
    {ExtStr("base"), ExtStr("all"), ExtStr("invalid"), ExtStr(""), ExtNone, ExtInt(1)}

\* the rows of city_codes.csv the model's files are cut from: the columns
\* name and adcode of each row
MasterRows ==
    << [name |-> <<"a", "b", "Q">>, adcode |-> "110101"],
       [name |-> <<"a", "b", "S">>, adcode |-> "110000"],
       [name |-> <<"a", "b">>, adcode |-> "110105"],
       [name |-> <<"c", "a", "b">>, adcode |-> "320100"],
       [name |-> <<"a", "b", "X">>, adcode |-> "130121"],
       [name |-> <<"a", "b", "c">>, adcode |-> "330100"],
       [name |-> <<"b", "S">>, adcode |-> "310000"],
       [name |-> <<"a", "b", "S">>, adcode |-> "999999"],
       [name |-> <<>>, adcode |-> "440100"],
       [name |-> <<"d", "d">>, adcode |-> ""],
       [name |-> <<"a", "b", "c", "S">>, adcode |-> "440300"] >>

\* the rows of rows whose index is in chosen, in file order
RECURSIVE Pick(_, _, _)
Pick(rows, chosen, i) ==
    IF i > Len(rows) THEN <<>>
    ELSE (IF i \in chosen THEN <<rows[i]>> ELSE <<>>) \o Pick(rows, chosen, i + 1)

Reverse(seq) == [i \in 1..Len(seq) |-> seq[Len(seq) + 1 - i]]

\* the files: readable ones holding some of the first n master rows, in
\* either order; a file that cannot be opened; a file without the columns
CsvFiles(n) ==
    LET rows == SubSeq(MasterRows, 1, Min(n, Len(MasterRows)))
        cuts == {Pick(rows, chosen, 1) : chosen \in SUBSET (1..Len(rows))}
    IN  {[state |-> "ok", rows |-> r] : r \in cuts \cup {Reverse(c) : c \in cuts}}
        \cup { [state |-> "missing", rows |-> <<>>],
               [state |-> "bad_header", rows |-> <<MasterRows[1]>>] }

HttpStatuses == {100, 200, 204, 304, 399, 400, 404, 500, 599}

\* the exceptions requests.get raises
RequestErrors ==
    {"ReadTimeout", "ConnectTimeout", "ConnectionError", "TooManyRedirects"}

\* what response.json() raises on a body that is no JSON: the class depends
\* on the installed requests version
JsonDecodeErrors == {"RequestsJSONDecodeError", "ValueError"}

Payloads ==
    { JAbsent, JNull, JList(<<>>), JList(<<"d1">>), JList(<<"d1", "d2">>),
      JObject(<<"k">>), JString(<<"x", "y">>), JNumber(5) }

StatusFields == {JAbsent, JString(<<"1">>), JString(<<"0">>), JNumber(1)}

InfoFields == {JAbsent, JString(<<"INVALID_USER_KEY">>)}

NoBody ==
    [kind |-> "malformed", status |-> JAbsent, info |-> JAbsent,
     infocode |-> JAbsent, lives |-> JAbsent, forecasts |-> JAbsent]

\* a JSON object with the fields get_weather reads
ObjectBodies(payloads, others) ==
    { [kind |-> "object", status |-> st, info |-> inf,
       infocode |-> IF inf = JAbsent THEN JAbsent ELSE JString(<<"10001">>),
       lives |-> lv, forecasts |-> fc] :
        st \in StatusFields, inf \in InfoFields, lv \in payloads, fc \in others }

Bodies ==
    ObjectBodies(Payloads, {JAbsent, JList(<<"f1">>)})
    \cup ObjectBodies({JAbsent, JList(<<"d1">>)}, Payloads)
    \cup {NoBody, [NoBody EXCEPT !.kind = "array"], [NoBody EXCEPT !.kind = "null"]}

NoResponse == [kind |-> "none", exc |-> "", status_code |-> 0, body |-> NoBody]

Responses(statuses, bodies) ==
    {[NoResponse EXCEPT !.kind = "raise", !.exc = e] : e \in RequestErrors}
    \cup {[NoResponse EXCEPT !.kind = "http", !.status_code = st, !.body = b] :
            st \in statuses, b \in bodies}


---------------------------------------------------------------------------
(* get_weather, statement group by statement group *)

NoResult == [returned |-> FALSE]

Success(type, name, data) ==
    [success |-> TRUE, type |-> type, city_name |-> name, data |-> data]

\* a slip: an empty credential passes
NotApiKeyUnsetOnly(env) == ~env.set

\* not api_key
NotApiKey(env) == ~env.set \/ env.value = ""

\* a slip: no isinstance test
InvalidCityNameFalsyOnly(v) == ~Truthy(v)

\* not city_name or not isinstance(city_name, str)
InvalidCityName(v) == ~Truthy(v) \/ ~IsStr(v)

\* extensions not in ["base", "all"]
InvalidExtensions(e) == ~(e = ExtStr("base") \/ e = ExtStr("all"))

\* a slip: the table is loaded before the mode is checked
NextStepLoadBeforeMode(step) ==
    CASE step = "credential" -> "city_name"
      [] step = "city_name" -> "load"
      [] step = "load" -> "extensions"
      [] step = "extensions" -> "exact"
      [] step = "exact" -> "request"
      [] step = "fuzzy" -> "request"
      [] step = "request" -> "classify"

\* the statement group that follows a group that did not return
NextStep(step) ==
    CASE step = "credential" -> "city_name"
      [] step = "city_name" -> "extensions"
      [] step = "extensions" -> "load"
      [] step = "load" -> "exact"
      [] step = "exact" -> "request"
      [] step = "fuzzy" -> "request"
      [] step = "request" -> "classify"

Return(r) == pc' = "done" /\ result' = r

Continue(step) == pc' = NextStep(step) /\ result' = result

\* an exception raised inside the try block
Raise(exc) ==
    LET handled == ExceptClauses(exc)
    IN  IF handled.caught
        THEN Return(handled.result)
        ELSE pc' = "escaped" /\ result' = result

Did(step) == trace' = Append(trace, step)

CheckApiKey ==
    /\ pc = "credential"
    /\ Did("credential")
    /\ IF NotApiKey(env_api_key)
       THEN Return(Fail("MISSING_API_KEY", <<"AMAP_API_KEY is not configured">>))
       ELSE Continue("credential")
    /\ UNCHANGED <<env_api_key, city_name, extensions, city_codes, adcode,
                   matched_city_name, response, api_result>>

CheckCityName ==
    /\ pc = "city_name"
    /\ Did("city_name")
    /\ IF InvalidCityName(city_name)
       THEN Return(Fail("INVALID_CITY_NAME", <<"city_name must be a non-empty string">>))
       ELSE Continue("city_name")
    /\ UNCHANGED <<env_api_key, city_name, extensions, city_codes, adcode,
                   matched_city_name, response, api_result>>

CheckExtensions ==
    /\ pc = "extensions"
    /\ Did("extensions")
    /\ IF InvalidExtensions(extensions)
       THEN Return(Fail("INVALID_EXTENSIONS", <<"extensions must be 'base' or 'all'">>))
       ELSE Continue("extensions")
    /\ UNCHANGED <<env_api_key, city_name, extensions, city_codes, adcode,
                   matched_city_name, response, api_result>>

\* city_codes = _load_city_codes(), and the check of an empty table
LoadCityCodes(files) ==
    /\ pc = "load"
    /\ Did("load")
    /\ \E file \in files :
         /\ city_codes' = LoadCityCodesFrom(file)
         /\ IF city_codes' = <<>>
            THEN Return(Fail("CITY_DATA_ERROR", <<"cannot load the city code data">>))
            ELSE Continue("load")
    /\ UNCHANGED <<env_api_key, city_name, extensions, adcode,
                   matched_city_name, response, api_result>>

\* adcode = city_codes.get(city_name); matched_city_name = city_name
ExactMatch ==
    /\ pc = "exact"
    /\ Did("exact")
    /\ adcode' = DictGet(city_codes, city_name.s)
    /\ matched_city_name' = city_name.s
    /\ pc' = IF adcode' # "" THEN NextStep("exact") ELSE "fuzzy"
    /\ UNCHANGED <<env_api_key, city_name, extensions, city_codes,
                   response, api_result, result>>

\* the loop over city_codes.items() with the stripped names
FuzzyMatch ==
    /\ pc = "fuzzy"
    /\ Did("fuzzy")
    /\ LET i == FuzzyFind(city_codes, city_name.s)
       IN  IF i # 0
           THEN /\ adcode' = city_codes[i].code
                /\ matched_city_name' = city_codes[i].name
                /\ pc' = NextStep("fuzzy")
           ELSE /\ UNCHANGED <<adcode, matched_city_name>>
                /\ pc' = "suggest"
    /\ UNCHANGED <<env_api_key, city_name, extensions, city_codes,
                   response, api_result, result>>

\* no adcode: the not-found result with its suggestions
NotFound ==
    /\ pc = "suggest"
    /\ Did("suggest")
    /\ Return(Fail("CITY_NOT_FOUND",
                   <<"city not found", city_name.s,
                     SimilarCities(city_codes, city_name.s)>>))
    /\ UNCHANGED <<env_api_key, city_name, extensions, city_codes, adcode,
                   matched_city_name, response, api_result>>

\* a slip: only the server errors raise
RaisesForStatusServerOnly(status_code) == 500 <= status_code /\ status_code < 600

\* response.raise_for_status() raises HTTPError
RaisesForStatus(status_code) == 400 <= status_code /\ status_code < 600

\* result = _query_weather_api(adcode, extensions, api_key)
QueryWeatherApi(responses) ==
    /\ pc = "request"
    /\ Did("request")
    /\ \E r \in responses :
         /\ response' = r
         /\ IF r.kind = "raise"
            THEN Raise(r.exc) /\ UNCHANGED api_result
            ELSE IF RaisesForStatus(r.status_code)
            THEN Raise("HTTPError") /\ UNCHANGED api_result
            ELSE IF r.body.kind = "malformed"
            THEN (\E exc \in JsonDecodeErrors : Raise(exc)) /\ UNCHANGED api_result
            ELSE api_result' = r.body /\ Continue("request")
    /\ UNCHANGED <<env_api_key, city_name, extensions, city_codes, adcode,
                   matched_city_name>>

\* a slip: both modes read "lives"
ModePayloadLives(ext, body) == GetDefault(body.lives, JList(<<>>))

\* result.get("lives", []) for "base", result.get("forecasts", []) otherwise
ModePayload(ext, body) ==
    IF ext = ExtStr("base")
    THEN GetDefault(body.lives, JList(<<>>))
    ELSE GetDefault(body.forecasts, JList(<<>>))

\* what the statements after the call make of the parsed body
Classify(ext, matched, body) ==
    IF body.kind # "object"
    THEN [raises |-> "AttributeError", result |-> NoResult]
    ELSE IF Get(body.status) # JString(<<"1">>)
    THEN [raises |-> "",
          result |-> [success |-> FALSE,
                      error |-> <<"amap api error",
                                  GetDefault(body.info, JString(<<"unknown error">>))>>,
                      error_code |-> "API_ERROR",
                      api_infocode |-> Get(body.infocode)]]
    ELSE LET payload == ModePayload(ext, body)
             type == IF ext = ExtStr("base") THEN "live" ELSE "forecast"
         IN  IF ~JTruthy(payload)
             THEN [raises |-> "", result |-> Fail("NO_DATA", <<"no weather data">>)]
             ELSE IF Index0(payload).raises # ""
             THEN [raises |-> Index0(payload).raises, result |-> NoResult]
             ELSE [raises |-> "",
                   result |-> Success(type, matched, Index0(payload).value)]

ClassifyResponse ==
    /\ pc = "classify"
    /\ Did("classify")
    /\ LET out == Classify(extensions, matched_city_name, api_result)
       IN  IF out.raises # "" THEN Raise(out.raises) ELSE Return(out.result)
    /\ UNCHANGED <<env_api_key, city_name, extensions, city_codes, adcode,
                   matched_city_name, response, api_result>>

Init ==
    /\ env_api_key \in ApiKeyEnvs
    /\ city_name \in CityNameValues
    /\ extensions \in ExtensionsValues
    /\ pc = "credential"
    /\ city_codes = <<>>
    /\ adcode = ""
    /\ matched_city_name = <<>>
    /\ response = NoResponse
    /\ api_result = NoBody
    /\ result = NoResult
    /\ trace = <<>>

Next(files, responses) ==
    \/ CheckApiKey
    \/ CheckCityName
    \/ CheckExtensions
    \/ LoadCityCodes(files)
    \/ ExactMatch
    \/ FuzzyMatch
    \/ NotFound
    \/ QueryWeatherApi(responses)
    \/ ClassifyResponse

\* every provider behaviour, the short city files
Spec == Init /\ [][Next(CsvFiles(SmallRows), Responses(HttpStatuses, Bodies))]_vars


\* one well-formed body per status and info field
SampleBodies == ObjectBodies({JList(<<"d1">>)}, {JList(<<"f1">>)})

\* every city file, a few provider behaviours
SpecTables == Init /\ [][Next(CsvFiles(MaxRows), Responses({200, 404}, SampleBodies))]_vars

---------------------------------------------------------------------------
(* The claims *)

Steps == {trace[i] : i \in 1..Len(trace)}

Ended == pc \in {"done", "escaped"}

Failed(code) == pc = "done" /\ result.success = FALSE /\ result.error_code = code

KeyMissing == ~env_api_key.set \/ env_api_key.value = ""

NameIsNonEmptyString == city_name.kind = "str" /\ Len(city_name.s) > 0

ModeIsKnown == extensions.kind = "str" /\ extensions.s \in {"base", "all"}

\* C1: with the credential absent or empty the invocation does nothing but
\* the credential check and returns MISSING_API_KEY, whatever city_name and
\* extensions are; the table is not loaded and no request is sent.
C1_MissingApiKey ==
    KeyMissing =>
        /\ pc \in {"credential", "done"}
        /\ pc = "done" => Failed("MISSING_API_KEY")
        /\ Steps \subseteq {"credential"}
        /\ city_codes = <<>>
        /\ response = NoResponse

C1_Witness ==
    /\ env_api_key.set /\ env_api_key.value = ""
    /\ ~ModeIsKnown /\ ~NameIsNonEmptyString
    /\ Failed("MISSING_API_KEY")

\* C2: with a credential, an empty or non-string city_name gives
\* INVALID_CITY_NAME whatever extensions is, and a non-empty string
\* city_name with extensions outside {"base", "all"} gives
\* INVALID_EXTENSIONS; in both cases no table load and no request.
C2_ValidationFirst ==
    /\ (~KeyMissing /\ ~NameIsNonEmptyString) =>
          /\ pc \in {"credential", "city_name", "done"}
          /\ pc = "done" => Failed("INVALID_CITY_NAME")
          /\ Steps \subseteq {"credential", "city_name"}
          /\ city_codes = <<>>
          /\ response = NoResponse
    /\ (~KeyMissing /\ NameIsNonEmptyString /\ ~ModeIsKnown) =>
          /\ pc \in {"credential", "city_name", "extensions", "done"}
          /\ pc = "done" => Failed("INVALID_EXTENSIONS")
          /\ Steps \subseteq {"credential", "city_name", "extensions"}
          /\ city_codes = <<>>
          /\ response = NoResponse

C2_Witness ==
    /\ ~KeyMissing
    /\ city_name.kind = "int" /\ city_name.n = 7 /\ ~ModeIsKnown
    /\ Failed("INVALID_CITY_NAME")


---------------------------------------------------------------------------
(* Resolution, stated over the loaded table *)

\* the resolution steps are over
Resolved == Steps \cap {"request", "suggest"} # {}

Query == city_name.s

\* the table entries named exactly as the query
ExactEntries == {i \in 1..Len(city_codes) : city_codes[i].name = Query}

\* text without its trailing run of suffix characters: the longest prefix
\* that is empty or ends in another character
StrippedForm(text) ==
    LET ends == {k \in 0..Len(text) : k = 0 \/ text[k] \notin {"S", "Q", "X"}}
        k == CHOOSE x \in ends : \A y \in ends : y <= x
    IN  SubSeq(text, 1, k)

\* the table entries whose stripped name is the stripped query
StrippedEntries ==
    {i \in 1..Len(city_codes) :
        StrippedForm(city_codes[i].name) = StrippedForm(Query)}

First(indices) == CHOOSE i \in indices : \A j \in indices : i <= j

\* C3: a query that is verbatim a table key resolves to that key's code,
\* with the query as the matched name, and the suffix-stripping step does
\* not run, whatever other entries share its stripped form.
C3_ExactMatch ==
    ("exact" \in Steps /\ ExactEntries # {}) =>
        /\ "fuzzy" \notin Steps
        /\ pc \in {"request", "classify", "done", "escaped"}
        /\ \E i \in ExactEntries : adcode = city_codes[i].code
        /\ matched_city_name = Query
        /\ (pc = "done" /\ result.success) => result.city_name = Query

\* an exact hit behind an earlier entry with the same stripped form
C3_Witness ==
    /\ pc = "done" /\ result.success
    /\ ExactEntries # {}
    /\ \E j \in StrippedEntries : j < First(ExactEntries)
    /\ adcode = city_codes[First(ExactEntries)].code

QueryPrefix == IF Len(Query) < 2 THEN Query ELSE SubSeq(Query, 1, 2)

\* the table entries whose key contains the query prefix
PrefixEntries == {i \in 1..Len(city_codes) : Contains(QueryPrefix, city_codes[i].name)}

Suggested == result.error[3]

\* C5: a valid query matching no key, exactly or stripped, gives
\* CITY_NOT_FOUND with no request; the suggestions are the first (at most
\* 5) table keys, in table order, that contain the query prefix.
C5_NotFound ==
    (Resolved /\ ExactEntries = {} /\ StrippedEntries = {}) =>
        /\ Failed("CITY_NOT_FOUND")
        /\ "request" \notin Steps /\ response = NoResponse
        /\ Len(Suggested) <= 5
        /\ Len(Suggested) = Min(5, Cardinality(PrefixEntries))
        /\ \A k \in 1..Len(Suggested) :
             \E i \in PrefixEntries :
                /\ Suggested[k] = city_codes[i].name
                /\ Cardinality({j \in PrefixEntries : j < i}) = k - 1

\* more than 5 keys contain the prefix and an earlier key does not
C5_Witness ==
    /\ Failed("CITY_NOT_FOUND")
    /\ Cardinality(PrefixEntries) > 5
    /\ 1 \notin PrefixEntries
    /\ Len(Suggested) = 5

---------------------------------------------------------------------------
(* The provider's answer *)

Body == response.body

StatusIsOne == Body.status.kind = "string" /\ Body.status.items = <<"1">>

\* the list the mode reads: "lives" for "base", "forecasts" for "all"
ModeList == IF extensions.s = "base" THEN Body.lives ELSE Body.forecasts

ModeType == IF extensions.s = "base" THEN "live" ELSE "forecast"

\* the mode's list is missing, or is a JSON array
ListOrMissing == ModeList.kind \in {"absent", "list"}

RequestTimedOut == response.kind = "raise" /\ response.exc \in {"ReadTimeout", "ConnectTimeout"}

\* the request failed otherwise: no connection, too many redirects, or an
\* HTTP error raised by the status check
RequestFailedOtherwise ==
    \/ response.kind = "raise" /\ response.exc \in {"ConnectionError", "TooManyRedirects"}
    \/ response.kind = "http" /\ response.status_code \in 400..599

\* C7: a request that exceeds its timeout gives TIMEOUT, never
\* NETWORK_ERROR or UNEXPECTED_ERROR; every other failure of the request
\* gives NETWORK_ERROR, never TIMEOUT.
C7_TimeoutDistinct ==
    /\ (Ended /\ RequestTimedOut) => Failed("TIMEOUT")
    /\ (Ended /\ RequestFailedOtherwise) => Failed("NETWORK_ERROR")

\* a timeout while connecting, which is a connection failure as well
C7_Witness ==
    /\ response.kind = "raise" /\ response.exc = "ConnectTimeout"
    /\ Failed("TIMEOUT")

ErrorCodes ==
    {"MISSING_API_KEY", "INVALID_CITY_NAME", "INVALID_EXTENSIONS", "CITY_DATA_ERROR",
     "CITY_NOT_FOUND", "API_ERROR", "NO_DATA", "TIMEOUT", "NETWORK_ERROR",
     "UNEXPECTED_ERROR"}

\* C8: every invocation ends by returning one of the two variants:
\* success, type, city_name and data without error or error_code, or
\* success = false, error and one of the ten error codes without type,
\* city_name or data; no exception leaves get_weather.
C8_ResultShape ==
    /\ pc # "escaped"
    /\ pc # "done" =>
         /\ result = NoResult
         /\ pc \in {"credential", "city_name", "extensions", "load", "exact", "fuzzy",
                    "suggest", "request", "classify"}
         /\ pc \notin Steps
    /\ pc = "done" =>
         /\ "success" \in DOMAIN result
         /\ result.success \in BOOLEAN
         /\ result.success => DOMAIN result = {"success", "type", "city_name", "data"}
         /\ ~result.success =>
              /\ {"success", "error", "error_code"} \subseteq DOMAIN result
              /\ DOMAIN result \cap {"type", "city_name", "data"} = {}
              /\ result.error_code \in ErrorCodes

\* a body that is JSON but no object
C8_Witness ==
    /\ response.kind = "http" /\ response.status_code = 200 /\ Body.kind = "array"
    /\ Failed("UNEXPECTED_ERROR")

\* C9 as stated: any answer with a status outside 200..299 gives a failure
\* with NETWORK_ERROR or API_ERROR
C9_NonSuccessStatus ==
    (Ended /\ response.kind = "http" /\ response.status_code \notin 200..299) =>
        /\ pc = "done" /\ ~result.success
        /\ result.error_code \in {"NETWORK_ERROR", "API_ERROR"}

\* C9, amended: any answer with a 4xx or 5xx status, whatever its body,
\* gives a failure with NETWORK_ERROR or API_ERROR, never a success.
C9_ErrorStatus ==
    (Ended /\ response.kind = "http" /\ response.status_code \in 400..599) =>
        /\ pc = "done" /\ ~result.success
        /\ result.error_code \in {"NETWORK_ERROR", "API_ERROR"}

\* a 4xx answer whose body would have been a success
C9_Witness ==
    /\ response.kind = "http" /\ response.status_code = 400
    /\ Body.kind = "object" /\ StatusIsOne /\ ModeList = JList(<<"d1">>)
    /\ Failed("NETWORK_ERROR")

\* the statement groups that may follow one another
Order ==
    { <<"credential", "city_name">>, <<"city_name", "extensions">>,
      <<"extensions", "load">>, <<"load", "exact">>, <<"exact", "fuzzy">>,
      <<"exact", "request">>, <<"fuzzy", "request">>, <<"fuzzy", "suggest">>,
      <<"request", "classify">> }

\* the error codes a return from each statement group can carry
CodesOf(step) ==
    CASE step = "credential" -> {"MISSING_API_KEY"}
      [] step = "city_name" -> {"INVALID_CITY_NAME"}
      [] step = "extensions" -> {"INVALID_EXTENSIONS"}
      [] step = "load" -> {"CITY_DATA_ERROR"}
      [] step = "suggest" -> {"CITY_NOT_FOUND"}
      [] step = "request" -> {"TIMEOUT", "NETWORK_ERROR", "UNEXPECTED_ERROR"}
      [] step = "classify" -> {"API_ERROR", "NO_DATA", "UNEXPECTED_ERROR"}
      [] OTHER -> {}

\* C10: the steps run in the order credential, city name, mode, table
\* load, resolution, request, classification, each at most once, and the
\* first failing step is the last one run; a request is sent only after a
\* non-empty table and a match, and an empty table gives CITY_DATA_ERROR.
C10_StepOrder ==
    /\ trace # <<>> => trace[1] = "credential"
    /\ \A i \in 1..(Len(trace) - 1) : <<trace[i], trace[i + 1]>> \in Order
    /\ \A i, j \in 1..Len(trace) : trace[i] = trace[j] => i = j
    /\ (pc = "done" /\ ~result.success) => result.error_code \in CodesOf(trace[Len(trace)])
    /\ (pc = "done" /\ result.success) => trace[Len(trace)] = "classify"
    /\ "request" \in Steps =>
         /\ city_codes # <<>>
         /\ adcode # ""
         /\ \E i \in 1..Len(city_codes) :
              city_codes[i].name = matched_city_name /\ city_codes[i].code = adcode
    /\ ("load" \in Steps /\ city_codes = <<>>) =>
         /\ Failed("CITY_DATA_ERROR")
         /\ trace[Len(trace)] = "load"

\* a request that timed out and was not sent again
C10_Witness ==
    /\ Failed("TIMEOUT")
    /\ trace = <<"credential", "city_name", "extensions", "load", "exact", "fuzzy",
                 "request">>

============================================================================
